---- MODULE Spec2Model ----
(***************************************************************************)
(* Vector storage and similarity scoring of a segment:                     *)
(*   - RecoQuery::score_by / merge_similarities   (query/reco_query.rs)     *)
(*   - the VectorStorage capability, with the fixture storage               *)
(*     TestRawScorerProducer as the concrete backend (index_fixtures.rs)    *)
(*   - the compatibility checks of a query against a segment config         *)
(*     (common/mod.rs)                                                      *)
(* Each part has its own specification; the variables of the parts that a   *)
(* specification does not exercise stay at their idle values.               *)
(***************************************************************************)
EXTENDS Integers, Sequences, FiniteSets, TLC

VARIABLES
    reco,         \* the RecoQuery<T> under score: [positives, negatives]
    similarity,   \* the similarity function handed to score_by: [Elem -> ScoreType]
    score,        \* the value score_by returned
    scorePc,      \* "idle" | "built" | "scored"
    vectors,          \* TestRawScorerProducer.vectors: ChunkedVectors [dim, items]
    deleted_points,   \* TestRawScorerProducer.deleted_points: BitVec
    deleted_vectors,  \* TestRawScorerProducer.deleted_vectors: BitVec
    storeRet,         \* the last storage call and what it returned
    storePc,          \* "idle" | "ready" | "panicked"
    implTotal,        \* total_vector_count() of some VectorStorage implementor
    implDeleted,      \* deleted_vector_count() of that implementor
    available,        \* what available_vector_count() returned
    countsPc,         \* "idle" | "called" | "returned"
    segment_config,   \* the SegmentConfig a check is made against
    checkCall,        \* the check called and its arguments
    checkRet,         \* what the check returned
    checkPc,          \* "idle" | "called" | "returned"
    is_stopped,       \* the AtomicBool handed to update_from and check_stopped
    dest_total,       \* total_vector_count() of the storage copied into
    copy,             \* the update_from in progress: [backend, ids, copied]
    stopRet,          \* the last cancellable call and what it returned
    stopPc,           \* "idle" | "ready" | "copying" | "panicked"
    convCall,         \* the conversion called and its argument
    convRet,          \* what the conversion returned
    convPc            \* "idle" | "called" | "returned"

scoreVars == <<reco, similarity, score, scorePc>>

storeVars == <<vectors, deleted_points, deleted_vectors, storeRet, storePc>>

countsVars == <<implTotal, implDeleted, available, countsPc>>

checkVars == <<segment_config, checkCall, checkRet, checkPc>>

stopVars == <<is_stopped, dest_total, copy, stopRet, stopPc>>

convVars == <<convCall, convRet, convPc>>

vars == <<scoreVars, storeVars, countsVars, checkVars, stopVars, convVars>>

\* what a step of one part leaves alone
notScore == <<storeVars, countsVars, checkVars, stopVars, convVars>>

notStore == <<scoreVars, countsVars, checkVars, stopVars, convVars>>

notCounts == <<scoreVars, storeVars, checkVars, stopVars, convVars>>

notCheck == <<scoreVars, storeVars, countsVars, stopVars, convVars>>

notStop == <<scoreVars, storeVars, countsVars, checkVars, convVars>>

notConv == <<scoreVars, storeVars, countsVars, checkVars, stopVars>>

-----------------------------------------------------------------------------
(* ScoreType = f32, in a reduced format.  A finite value is sign * m units,  *)
(* one unit being the smallest positive value of the format; Scale units    *)
(* make 1.0 and MaxMag units is the largest finite value.  Products round   *)
(* to nearest (ties to even), underflow to zero and overflow to infinity,   *)
(* as IEEE 754 arithmetic does.  NaN and both infinities and both zeros     *)
(* are values of the type.                                                  *)

\* units per 1.0
Scale == 2

\* largest finite magnitude, in units
MaxMag == 4000

Fin(negative, m) == [k |-> "fin", neg |-> negative, m |-> m]

NEG_INFINITY == [k |-> "inf", neg |-> TRUE, m |-> 0]

INFINITY == [k |-> "inf", neg |-> FALSE, m |-> 0]

NAN == [k |-> "nan", neg |-> FALSE, m |-> 0]

\* n.0 as a ScoreType (`x as ScoreType` of the tests)
FromInt(n) == IF n < 0 THEN Fin(TRUE, (0 - n) * Scale) ELSE Fin(FALSE, n * Scale)

is_nan(x) == x.k = "nan"

\* the numeric value, in units, of a value that is not NaN (both zeros are 0)
Num(x) ==
    LET mag == IF x.k = "inf" THEN MaxMag + 1 ELSE x.m
    IN  IF x.neg THEN 0 - mag ELSE mag

\* f32 `>`: false as soon as one side is NaN; -0.0 and 0.0 are equal
Gt(a, b) == ~is_nan(a) /\ ~is_nan(b) /\ Num(a) > Num(b)

\* f32 `==`
FEq(a, b) == ~is_nan(a) /\ ~is_nan(b) /\ Num(a) = Num(b)

\* f32 `<=`
Le(a, b) == ~is_nan(a) /\ ~is_nan(b) /\ Num(a) <= Num(b)

\* the key f32::total_cmp compares by:
\* -NaN < -inf < negative finite < -0.0 < 0.0 < positive finite < inf < NaN
TotalKey(x) ==
    LET rank == CASE x.k = "fin" -> x.m
                  [] x.k = "inf" -> MaxMag + 1
                  [] x.k = "nan" -> MaxMag + 2
    IN  IF x.neg THEN 0 - rank - 1 ELSE rank

\* a.total_cmp(b) == Ordering::Greater
total_cmp_greater(a, b) == TotalKey(a) > TotalKey(b)

\* round-to-nearest, ties-to-even of p / Scale
RoundUnits(p) ==
    LET q == p \div Scale
        r == p % Scale
    IN  IF 2 * r > Scale \/ (2 * r = Scale /\ q % 2 = 1) THEN q + 1 ELSE q

\* f32 `a * b`
Mul(a, b) ==
    LET negative == (a.neg # b.neg)
    IN  IF is_nan(a) THEN a
        ELSE IF is_nan(b) THEN b
        ELSE IF a.k = "inf" \/ b.k = "inf"
             THEN IF (a.k = "fin" /\ a.m = 0) \/ (b.k = "fin" /\ b.m = 0)
                  THEN NAN
                  ELSE [k |-> "inf", neg |-> negative, m |-> 0]
        ELSE LET r == RoundUnits(a.m * b.m)
             IN  IF r > MaxMag
                 THEN [k |-> "inf", neg |-> negative, m |-> 0]
                 ELSE Fin(negative, r)

\* f32 unary `-`: flips the sign bit, of NaN too
FNeg(a) == [a EXCEPT !.neg = ~a.neg]

-----------------------------------------------------------------------------
(* RecoQuery<T>::score_by and merge_similarities                            *)

RECURSIVE max_by_fold(_, _)
\* the fold inside Iterator::max_by: the later element wins unless the
\* accumulator compares Greater
max_by_fold(acc, s) ==
    IF s = <<>> THEN acc
    ELSE max_by_fold(IF total_cmp_greater(acc, Head(s)) THEN acc ELSE Head(s), Tail(s))

RECURSIVE min_by_fold(_, _)
min_by_fold(acc, s) ==
    IF s = <<>> THEN acc
    ELSE min_by_fold(IF total_cmp_greater(acc, Head(s)) THEN Head(s) ELSE acc, Tail(s))

\* faulty variant: keeps the smallest similarity
max_or_neg_infinity_min(sims) ==
    IF sims = <<>> THEN NEG_INFINITY ELSE min_by_fold(Head(sims), Tail(sims))

\* faulty variant: an empty list contributes 0.0
max_or_neg_infinity_zero(sims) ==
    IF sims = <<>> THEN FromInt(0) ELSE max_by_fold(Head(sims), Tail(sims))

\* sims.max_by(|a, b| a.total_cmp(b)).unwrap_or(ScoreType::NEG_INFINITY)
max_or_neg_infinity(sims) ==
    IF sims = <<>> THEN NEG_INFINITY ELSE max_by_fold(Head(sims), Tail(sims))

\* faulty variant: `>=` in place of `>`
merge_similarities_ge(positives, negatives) ==
    LET max_positive == max_or_neg_infinity(positives)
        max_negative == max_or_neg_infinity(negatives)
    IN  IF Gt(max_positive, max_negative) \/ FEq(max_positive, max_negative)
        THEN max_positive
        ELSE FNeg(Mul(max_negative, max_negative))

\* faulty variant: the negative branch is not squared
merge_similarities_nosquare(positives, negatives) ==
    LET max_positive == max_or_neg_infinity(positives)
        max_negative == max_or_neg_infinity(negatives)
    IN  IF Gt(max_positive, max_negative)
        THEN max_positive
        ELSE FNeg(max_negative)

\* faulty variant: the negative branch is not negated
merge_similarities_nominus(positives, negatives) ==
    LET max_positive == max_or_neg_infinity(positives)
        max_negative == max_or_neg_infinity(negatives)
    IN  IF Gt(max_positive, max_negative)
        THEN max_positive
        ELSE Mul(max_negative, max_negative)

merge_similarities(positives, negatives) ==
    LET max_positive == max_or_neg_infinity(positives)
        max_negative == max_or_neg_infinity(negatives)
    IN  IF Gt(max_positive, max_negative)
        THEN max_positive
        ELSE FNeg(Mul(max_negative, max_negative))

\* list.iter().map(&similarity)
MapSim(list, sim) == [i \in 1..Len(list) |-> sim[list[i]]]

score_by(query, sim) ==
    merge_similarities(MapSim(query.positives, sim), MapSim(query.negatives, sim))

-----------------------------------------------------------------------------
(* Inputs of the scoring specification                                      *)

\* number of distinct query elements (values of T)
NumElems == 2

\* most elements of one query, positives and negatives together
MaxLen == 3

Elem == 1..NumElems

\* the similarities a similarity function may return here: NaN, both
\* infinities, both zeros, the smallest positive value (its square
\* underflows), small integers of both signs, and a value whose square
\* overflows
ScoreInputs ==
    {NAN, NEG_INFINITY, INFINITY, Fin(TRUE, 0), Fin(FALSE, 0), Fin(FALSE, 1),
     FromInt(1), FromInt(-1), FromInt(5), FromInt(-5), FromInt(84)}

SeqsUpTo(S, n) == UNION {[1..l -> S] : l \in 0..n}

\* RecoQuery::new(positives, negatives)
RecoQuery_new(positives, negatives) == [positives |-> positives, negatives |-> negatives]

ScoreIdle ==
    /\ reco = RecoQuery_new(<<>>, <<>>)
    /\ similarity = <<>>
    /\ score = NEG_INFINITY
    /\ scorePc = "idle"

ScoreInit ==
    /\ \E p \in SeqsUpTo(Elem, MaxLen) :
         \E n \in SeqsUpTo(Elem, MaxLen - Len(p)) :
             reco = RecoQuery_new(p, n)
    /\ similarity \in [Elem -> ScoreInputs]
    /\ score = NEG_INFINITY
    /\ scorePc = "built"

ScoreBy ==
    /\ scorePc = "built"
    /\ score' = score_by(reco, similarity)
    /\ scorePc' = "scored"
    /\ UNCHANGED <<reco, similarity, notScore>>

-----------------------------------------------------------------------------
(* Vectors: VectorType, SparseVector and the unions over them               *)

\* stand-ins for VectorElementType / DimWeight values
VecElems == {0, 1}

\* SparseVector::new(indices, weights)
SparseVector_new(indices, weights) == [indices |-> indices, weights |-> weights]

\* VectorOrSparse::Vector(v)
OwnedVector(v) == [tag |-> "Vector", borrowed |-> FALSE, vector |-> v]

\* VectorOrSparse::Sparse(sv)
OwnedSparse(sv) == [tag |-> "Sparse", borrowed |-> FALSE, sparse |-> sv]

\* VectorOrSparseRef::Vector(&v)
RefVector(v) == [tag |-> "Vector", borrowed |-> TRUE, vector |-> v]

\* VectorOrSparseRef::Sparse(&sv)
RefSparse(sv) == [tag |-> "Sparse", borrowed |-> TRUE, sparse |-> sv]

\* VectorOrSparseRef::len
VectorOrSparseRef_len(r) ==
    IF r.tag = "Vector" THEN Len(r.vector) ELSE Len(r.sparse.indices)

\* Into<VectorOrSparseRef> for &VectorOrSparse
as_ref(u) ==
    IF u.tag = "Vector" THEN RefVector(u.vector) ELSE RefSparse(u.sparse)

\* OperationResult
Ok(value) == [tag |-> "Ok", value |-> value]

OkUnit == [tag |-> "Ok"]

WrongSparse == [tag |-> "WrongSparse"]

WrongVector(expected, received) ==
    [tag |-> "WrongVector", expected_dim |-> expected, received_dim |-> received]

VectorNameNotExists(name) == [tag |-> "VectorNameNotExists", received_name |-> name]

\* the call unwound with a panic instead of returning
Panic == [tag |-> "panic"]

is_ok(r) == r.tag = "Ok"

\* faulty variant: a sparse reference is narrowed to an empty dense slice
ref_try_into_slice_coerce(r) ==
    IF r.tag = "Vector" THEN Ok(r.vector) ELSE Ok(<<>>)

\* TryInto<&[VectorElementType]> for VectorOrSparseRef
ref_try_into_slice(r) ==
    IF r.tag = "Vector" THEN Ok(r.vector) ELSE WrongSparse

-----------------------------------------------------------------------------
(* The fixture storage TestRawScorerProducer                                *)

\* largest dimension of the fixture storage
MaxStoreDim == 1

\* most vectors the fixture is created with; offsets range over 0..MaxVectors
MaxVectors == 2

Keys == 0..MaxVectors

DenseVectors(dim) == [1..dim -> VecElems]

\* sparse vectors offered to insert_vector
SparseInputs == {SparseVector_new(<<>>, <<>>), SparseVector_new(<<1>>, <<1>>)}

\* BitVec::repeat(bit, len)
BitVec_repeat(bit, len) == [i \in 1..len |-> bit]

\* BitVec::count_ones
count_ones(bits) == Cardinality({i \in 1..Len(bits) : bits[i]})

\* ChunkedVectors::len
ChunkedVectors_len(cv) == Len(cv.items)

\* ChunkedVectors::get
ChunkedVectors_get(cv, key) == cv.items[key + 1]

\* ChunkedVectors::insert: writes at `key`, growing the storage to key + 1
\* vectors (zero-filled) when `key` is past the end
ChunkedVectors_insert(cv, key, vector) ==
    LET len == IF key + 1 > Len(cv.items) THEN key + 1 ELSE Len(cv.items)
    IN  [cv EXCEPT !.items =
            [i \in 1..len |->
                IF i = key + 1 THEN vector
                ELSE IF i <= Len(cv.items) THEN cv.items[i]
                ELSE [j \in 1..cv.dim |-> 0]]]

total_vector_count == ChunkedVectors_len(vectors)

deleted_vector_count == count_ones(deleted_vectors)

\* usize::saturating_sub
saturating_sub(a, b) == IF b > a THEN 0 ELSE a - b

\* faulty variant: plain subtraction
available_vector_count_unchecked(total, deleted) == total - deleted

\* VectorStorage::available_vector_count, over what the implementor reports
available_vector_count(total, deleted) == saturating_sub(total, deleted)

get_vector(key) == RefVector(ChunkedVectors_get(vectors, key))

\* whether the bitmap has a bit at `key` (indexing past it panics)
InBitmap(key) == key < Len(deleted_vectors)

StoreIdle ==
    /\ vectors = [dim |-> 0, items |-> <<>>]
    /\ deleted_points = <<>>
    /\ deleted_vectors = <<>>
    /\ storeRet = [op |-> "none"]
    /\ storePc = "idle"

\* TestRawScorerProducer::new(dim, num_vectors, rng)
StoreInit ==
    /\ \E dim \in 1..MaxStoreDim, num_vectors \in 0..MaxVectors :
          /\ \E items \in [1..num_vectors -> DenseVectors(dim)] :
                vectors = [dim |-> dim, items |-> items]
          /\ deleted_points = BitVec_repeat(FALSE, num_vectors)
          /\ deleted_vectors = BitVec_repeat(FALSE, num_vectors)
    /\ storeRet = [op |-> "new"]
    /\ storePc = "ready"

\* the effect of insert_vector on the stored vectors and its result
insert_vector(key, vector) ==
    LET slice == ref_try_into_slice(vector)
    IN  IF is_ok(slice)
        THEN [vectors |-> ChunkedVectors_insert(vectors, key, slice.value),
              result |-> OkUnit]
        ELSE [vectors |-> vectors, result |-> slice]

InsertVector(key, vector) ==
    /\ storePc = "ready"
    /\ vector.tag = "Vector" => Len(vector.vector) = vectors.dim
    /\ LET r == insert_vector(key, vector)
       IN  /\ vectors' = r.vectors
           /\ storeRet' = [op |-> "insert_vector", key |-> key, vector |-> vector,
                           result |-> r.result]
    /\ UNCHANGED <<deleted_points, deleted_vectors, storePc, notStore>>

\* faulty variant: the flag is set but the previous value is not inverted
delete_vector_result_raw(previous) == Ok(previous)

\* Ok(!previous) of delete_vector
delete_vector_result(previous) == Ok(~previous)

\* faulty variant: every bit is written
BitVec_replace_all(bits, key, value) == [i \in 1..Len(bits) |-> value]

\* faulty variant: the bit is inverted instead of written
BitVec_replace_toggle(bits, key, value) == [bits EXCEPT ![key + 1] = ~@]

\* BitVec::replace(key, value): the bits afterwards
BitVec_replace(bits, key, value) == [bits EXCEPT ![key + 1] = value]

\* delete_vector: deleted_vectors.replace(key, true), which panics past the bitmap
DeleteVector(key) ==
    /\ storePc = "ready"
    /\ key < total_vector_count
    /\ IF InBitmap(key)
       THEN /\ deleted_vectors' = BitVec_replace(deleted_vectors, key, TRUE)
            /\ storeRet' = [op |-> "delete_vector", key |-> key,
                            result |-> delete_vector_result(deleted_vectors[key + 1])]
            /\ UNCHANGED storePc
       ELSE /\ storePc' = "panicked"
            /\ storeRet' = [op |-> "delete_vector", key |-> key, result |-> Panic]
            /\ UNCHANGED deleted_vectors
    /\ UNCHANGED <<vectors, deleted_points, notStore>>

\* is_deleted_vector: deleted_vectors[key], which panics past the bitmap
IsDeletedVector(key) ==
    /\ storePc = "ready"
    /\ key < total_vector_count
    /\ IF InBitmap(key)
       THEN /\ storeRet' = [op |-> "is_deleted_vector", key |-> key,
                            result |-> deleted_vectors[key + 1]]
            /\ UNCHANGED storePc
       ELSE /\ storePc' = "panicked"
            /\ storeRet' = [op |-> "is_deleted_vector", key |-> key, result |-> Panic]
    /\ UNCHANGED <<vectors, deleted_points, deleted_vectors, notStore>>

GetVector(key) ==
    /\ storePc = "ready"
    /\ key < total_vector_count
    /\ storeRet' = [op |-> "get_vector", key |-> key, result |-> get_vector(key)]
    /\ UNCHANGED <<vectors, deleted_points, deleted_vectors, storePc, notStore>>

InsertInputs ==
    {RefVector(v) : v \in DenseVectors(vectors.dim)} \cup {RefSparse(sv) : sv \in SparseInputs}

Next ==
    \/ \E key \in Keys, vector \in InsertInputs : InsertVector(key, vector)
    \/ \E key \in Keys : DeleteVector(key)
    \/ \E key \in Keys : IsDeletedVector(key)
    \/ \E key \in Keys : GetVector(key)

-----------------------------------------------------------------------------
(* VectorStorage::available_vector_count over any implementor               *)

\* largest count an implementor reports
MaxCount == 10

CountsIdle ==
    /\ implTotal = 0
    /\ implDeleted = 0
    /\ available = 0
    /\ countsPc = "idle"

\* the deletion bitmap of an implementor may be smaller or larger than the
\* number of its vectors, so the two counts are independent
CountsInit ==
    /\ implTotal \in 0..MaxCount
    /\ implDeleted \in 0..MaxCount
    /\ available = 0
    /\ countsPc = "called"

AvailableVectorCount ==
    /\ countsPc = "called"
    /\ available' = available_vector_count(implTotal, implDeleted)
    /\ countsPc' = "returned"
    /\ UNCHANGED <<implTotal, implDeleted, notCounts>>

-----------------------------------------------------------------------------
(* Compatibility checks of a query against a segment config (common/mod.rs) *)

DEFAULT_VECTOR_NAME == ""

\* vector names of the configs and of the calls
Names == {DEFAULT_VECTOR_NAME, "image"}

\* largest configured size of a vector field
MaxDim == 2

\* longest vector handed to a check
MaxVecLen == 2

\* most elements of a Recommend query handed to check_vector
MaxRecoLen == 2

\* most queries handed to check_query_vectors
MaxQueries == 2

\* QueryVector::Nearest(vector)
Nearest(vector) == [tag |-> "Nearest", vector |-> vector]

\* QueryVector::Recommend(query)
Recommend(query) == [tag |-> "Recommend", query |-> query]

\* the vectors handed to the checks: dense and sparse, of every length
CheckVectors ==
    {OwnedVector([i \in 1..l |-> 0]) : l \in 0..MaxVecLen}
        \cup {OwnedSparse(SparseVector_new([i \in 1..l |-> i - 1], [i \in 1..l |-> 1])) :
                 l \in 0..MaxVecLen}

\* Recommend queries of at most n elements
RecoQueries(n) ==
    UNION {{RecoQuery_new(p, q) : q \in SeqsUpTo(CheckVectors, n - Len(p))} :
              p \in SeqsUpTo(CheckVectors, n)}

QueryVectors(n) ==
    {Nearest(v) : v \in CheckVectors} \cup {Recommend(rq) : rq \in RecoQueries(n)}

\* SegmentConfig: vector_data maps a name to its VectorDataConfig
SegmentConfigs ==
    UNION {{[vector_data |-> vd] : vd \in [D -> [size : 1..MaxDim]]} : D \in SUBSET Names}

\* faulty variant: the negatives come first
iter_all_negatives_first(query) == query.negatives \o query.positives

\* RecoQuery::iter_all
iter_all(query) == query.positives \o query.negatives

\* faulty variant: an unknown name falls back to the default vector's config
get_vector_config_or_error_default(vector_name, config) ==
    IF vector_name \in DOMAIN config.vector_data
    THEN Ok(config.vector_data[vector_name])
    ELSE IF DEFAULT_VECTOR_NAME \in DOMAIN config.vector_data
         THEN Ok(config.vector_data[DEFAULT_VECTOR_NAME])
         ELSE VectorNameNotExists(vector_name)

get_vector_config_or_error(vector_name, config) ==
    IF vector_name \in DOMAIN config.vector_data
    THEN Ok(config.vector_data[vector_name])
    ELSE VectorNameNotExists(vector_name)

\* faulty variant: only a vector that is too short is rejected
check_vector_against_config_short(vector, vector_config) ==
    LET dim == vector_config.size
    IN  IF VectorOrSparseRef_len(vector) < dim
        THEN WrongVector(dim, VectorOrSparseRef_len(vector))
        ELSE OkUnit

check_vector_against_config(vector, vector_config) ==
    LET dim == vector_config.size
    IN  IF VectorOrSparseRef_len(vector) # dim
        THEN WrongVector(dim, VectorOrSparseRef_len(vector))
        ELSE OkUnit

RECURSIVE try_for_each_vector(_, _)
\* iter.try_for_each(|vector| check_vector_against_config(vector.into(), vector_config))
try_for_each_vector(list, vector_config) ==
    IF list = <<>> THEN OkUnit
    ELSE LET r == check_vector_against_config(as_ref(Head(list)), vector_config)
         IN  IF is_ok(r) THEN try_for_each_vector(Tail(list), vector_config) ELSE r

_check_query_vector(query_vector, vector_config) ==
    IF query_vector.tag = "Nearest"
    THEN check_vector_against_config(as_ref(query_vector.vector), vector_config)
    ELSE try_for_each_vector(iter_all(query_vector.query), vector_config)

RECURSIVE try_for_each_query(_, _)
\* query_vectors.iter().try_for_each(|qv| _check_query_vector(qv, vector_config))
try_for_each_query(list, vector_config) ==
    IF list = <<>> THEN OkUnit
    ELSE LET r == _check_query_vector(Head(list), vector_config)
         IN  IF is_ok(r) THEN try_for_each_query(Tail(list), vector_config) ELSE r

check_vector_name(vector_name, config) ==
    LET r == get_vector_config_or_error(vector_name, config)
    IN  IF is_ok(r) THEN OkUnit ELSE r

check_vector(vector_name, query_vector, config) ==
    LET r == get_vector_config_or_error(vector_name, config)
    IN  IF is_ok(r) THEN _check_query_vector(query_vector, r.value) ELSE r

check_query_vectors(vector_name, query_vectors, config) ==
    LET r == get_vector_config_or_error(vector_name, config)
    IN  IF is_ok(r) THEN try_for_each_query(query_vectors, r.value) ELSE r

CheckIdle ==
    /\ segment_config = [vector_data |-> <<>>]
    /\ checkCall = [fn |-> "none"]
    /\ checkRet = OkUnit
    /\ checkPc = "idle"

\* the calls made on a name: any of the three checks, on any queries
CheckCalls(n) ==
    {[fn |-> "check_vector_name", vector_name |-> n]}
        \cup {[fn |-> "check_vector", vector_name |-> n, query_vector |-> q] :
                 q \in QueryVectors(MaxRecoLen)}
        \cup {[fn |-> "check_query_vectors", vector_name |-> n, query_vectors |-> qs] :
                 qs \in SeqsUpTo(QueryVectors(1), MaxQueries)}

CheckInit ==
    /\ \E n \in Names : checkCall \in CheckCalls(n)
    /\ segment_config \in SegmentConfigs
    /\ checkRet = OkUnit
    /\ checkPc = "called"

CheckVectorName ==
    /\ checkPc = "called"
    /\ checkCall.fn = "check_vector_name"
    /\ checkRet' = check_vector_name(checkCall.vector_name, segment_config)
    /\ checkPc' = "returned"
    /\ UNCHANGED <<segment_config, checkCall, notCheck>>

CheckVector ==
    /\ checkPc = "called"
    /\ checkCall.fn = "check_vector"
    /\ checkRet' = check_vector(checkCall.vector_name, checkCall.query_vector, segment_config)
    /\ checkPc' = "returned"
    /\ UNCHANGED <<segment_config, checkCall, notCheck>>

CheckQueryVectors ==
    /\ checkPc = "called"
    /\ checkCall.fn = "check_query_vectors"
    /\ checkRet' = check_query_vectors(checkCall.vector_name, checkCall.query_vectors,
                                       segment_config)
    /\ checkPc' = "returned"
    /\ UNCHANGED <<segment_config, checkCall, notCheck>>

-----------------------------------------------------------------------------
(* Specifications                                                           *)

(* Cancellation: check_stopped and the bulk copy update_from                 *)

\* source offsets a bulk copy may name
SourceIds == {0, 1}

\* longest id sequence handed to update_from
MaxCopyLen == 2

\* most vectors the destination storage holds
MaxDest == 3

\* OperationError::Cancelled
Cancelled == [tag |-> "Cancelled", description |-> "Operation is stopped externally"]

\* the call has not returned yet
Pending == [tag |-> "pending"]

\* faulty variant: the flag is not read
check_stopped_unread(flag) == OkUnit

\* check_stopped(is_stopped): one Relaxed load, no store
check_stopped(flag) == IF flag THEN Cancelled ELSE OkUnit

\* the storages update_from can be called on: the five variants of
\* VectorStorageEnum and the fixture storage
DenseBackends == {"Simple", "Memmap", "AppendableMemmap"}

SparseBackends == {"SparseRam", "SparseMemmap"}

Backends == DenseBackends \cup SparseBackends \cup {"TestRawScorerProducer"}

\* update_from of SparseVectorStorage and of the fixture: todo!()
Unimplemented(backend) == backend \in SparseBackends \cup {"TestRawScorerProducer"}

StopIdle ==
    /\ is_stopped = FALSE
    /\ dest_total = 0
    /\ copy = [backend |-> "none", ids |-> <<>>, copied |-> 0]
    /\ stopRet = [op |-> "none"]
    /\ stopPc = "idle"

\* the caller owns the flag; it may be set before the first call
StopInit ==
    /\ is_stopped \in BOOLEAN
    /\ dest_total = 0
    /\ copy = [backend |-> "none", ids |-> <<>>, copied |-> 0]
    /\ stopRet = [op |-> "none"]
    /\ stopPc = "ready"

\* the coordinating thread sets the flag, at any moment
SetStopped ==
    /\ stopPc \in {"ready", "copying"}
    /\ ~is_stopped
    /\ is_stopped' = TRUE
    /\ UNCHANGED <<dest_total, copy, stopRet, stopPc>>
    /\ UNCHANGED notStop

CheckStopped ==
    /\ stopPc = "ready"
    /\ stopRet' = [op |-> "check_stopped", stopped |-> is_stopped,
                   result |-> check_stopped(is_stopped)]
    /\ UNCHANGED <<is_stopped, dest_total, copy, stopPc>>
    /\ UNCHANGED notStop

\* update_from(other, other_ids, stopped) is entered: the unimplemented
\* storages panic at once, the dense storages begin the copy
UpdateFrom(backend, other_ids) ==
    /\ stopPc = "ready"
    /\ dest_total + Len(other_ids) <= MaxDest
    /\ IF Unimplemented(backend)
       THEN /\ stopRet' = [op |-> "update_from", backend |-> backend,
                           other_ids |-> other_ids, stopped |-> is_stopped,
                           result |-> Panic]
            /\ stopPc' = "panicked"
            /\ UNCHANGED copy
       ELSE /\ stopRet' = [op |-> "update_from", backend |-> backend,
                           other_ids |-> other_ids, stopped |-> is_stopped,
                           result |-> Pending]
            /\ stopPc' = "copying"
            /\ copy' = [backend |-> backend, ids |-> other_ids, copied |-> 0]
    /\ UNCHANGED <<is_stopped, dest_total>>
    /\ UNCHANGED notStop

\* one turn of the copy loop of a dense storage: the flag is checked before
\* each entry, and the destination range is returned when the ids run out
UpdateFromStep ==
    /\ stopPc = "copying"
    /\ IF copy.ids = <<>>
       THEN /\ stopRet' = [stopRet EXCEPT !.result =
                              Ok([start |-> dest_total - copy.copied, end |-> dest_total])]
            /\ stopPc' = "ready"
            /\ UNCHANGED <<dest_total, copy>>
       ELSE IF ~is_ok(check_stopped(is_stopped))
       THEN /\ stopRet' = [stopRet EXCEPT !.result = check_stopped(is_stopped)]
            /\ stopPc' = "ready"
            /\ UNCHANGED <<dest_total, copy>>
       ELSE /\ dest_total' = dest_total + 1
            /\ copy' = [copy EXCEPT !.ids = Tail(@), !.copied = @ + 1]
            /\ UNCHANGED <<stopRet, stopPc>>
    /\ UNCHANGED is_stopped
    /\ UNCHANGED notStop

-----------------------------------------------------------------------------
(* Conversions of vector unions and of queries                              *)

\* longest vector handed to a conversion
MaxConvLen == 2

\* faulty variant: the last element is lost
from_vector_truncated(v) == OwnedVector(SubSeq(v, 1, Len(v) - 1))

\* From<VectorType> for VectorOrSparse
from_vector(v) == OwnedVector(v)

\* From<SparseVector> for VectorOrSparse
from_sparse(sv) == OwnedSparse(sv)

\* TryInto<&[VectorElementType]> for &VectorOrSparse
try_into_slice(u) ==
    IF u.tag = "Vector" THEN Ok(u.vector) ELSE WrongSparse

\* faulty variant: the indices of a sparse vector are taken for a dense one
try_into_vector_coerce(u) ==
    IF u.tag = "Vector" THEN Ok(u.vector) ELSE Ok(u.sparse.indices)

\* TryInto<VectorType> for VectorOrSparse
try_into_vector(u) ==
    IF u.tag = "Vector" THEN Ok(u.vector) ELSE WrongSparse

\* TryInto<&SparseVector> for &VectorOrSparse
try_into_sparse_ref(u) ==
    IF u.tag = "Vector" THEN WrongSparse ELSE Ok(u.sparse)

\* TryInto<SparseVector> for VectorOrSparse
try_into_sparse(u) ==
    IF u.tag = "Vector" THEN WrongSparse ELSE Ok(u.sparse)

\* TryInto<&SparseVector> for VectorOrSparseRef
ref_try_into_sparse(r) ==
    IF r.tag = "Vector" THEN WrongSparse ELSE Ok(r.sparse)

ConvDense == SeqsUpTo(VecElems, MaxConvLen)

ConvSparse ==
    {SparseVector_new(i, w) : i \in SeqsUpTo(VecElems, MaxConvLen),
                              w \in SeqsUpTo(VecElems, MaxConvLen)}

\* every VectorOrSparse
Unions == {OwnedVector(v) : v \in ConvDense} \cup {OwnedSparse(sv) : sv \in ConvSparse}

\* every VectorOrSparseRef
UnionRefs == {RefVector(v) : v \in ConvDense} \cup {RefSparse(sv) : sv \in ConvSparse}

\* the six narrowing conversions
NarrowOwned == {"try_into_slice", "try_into_vector", "try_into_sparse_ref", "try_into_sparse"}

NarrowRef == {"ref_try_into_slice", "ref_try_into_sparse"}

NarrowCalls ==
    {[fn |-> f, arg |-> u] : f \in NarrowOwned, u \in Unions}
        \cup {[fn |-> f, arg |-> r] : f \in NarrowRef, r \in UnionRefs}

ConvIdle ==
    /\ convCall = [fn |-> "none"]
    /\ convRet = OkUnit
    /\ convPc = "idle"

ConvReturn(fn, result) ==
    /\ convPc = "called"
    /\ convCall.fn = fn
    /\ convRet' = result
    /\ convPc' = "returned"
    /\ UNCHANGED convCall
    /\ UNCHANGED notConv

TryIntoSlice == ConvReturn("try_into_slice", try_into_slice(convCall.arg))

TryIntoVector == ConvReturn("try_into_vector", try_into_vector(convCall.arg))

TryIntoSparseRef == ConvReturn("try_into_sparse_ref", try_into_sparse_ref(convCall.arg))

TryIntoSparse == ConvReturn("try_into_sparse", try_into_sparse(convCall.arg))

RefTryIntoSlice == ConvReturn("ref_try_into_slice", ref_try_into_slice(convCall.arg))

RefTryIntoSparse == ConvReturn("ref_try_into_sparse", ref_try_into_sparse(convCall.arg))

\* let u: VectorOrSparse = v.into(); u.try_into() as VectorType
RoundTripVector ==
    ConvReturn("round_trip_vector", try_into_vector(from_vector(convCall.arg)))

\* let u: VectorOrSparse = s.into(); u.try_into() as SparseVector
RoundTripSparse ==
    ConvReturn("round_trip_sparse", try_into_sparse(from_sparse(convCall.arg)))

\* QuantizedVectorStorage: the six variants
QuantizedStorages == {"ScalarRam", "ScalarMmap", "PQRam", "PQMmap", "BinaryRam", "BinaryMmap"}

\* faulty variant: sparse elements are dropped
RECURSIVE collect_dense_skip(_)
collect_dense_skip(us) ==
    IF us = <<>> THEN Ok(<<>>)
    ELSE IF Head(us).tag = "Sparse" THEN collect_dense_skip(Tail(us))
    ELSE Ok(<<Head(us).vector>> \o collect_dense_skip(Tail(us)).value)

\* into_iter().map(|v| match v { Vector(v) => Ok(v), Sparse(_) => Err(WrongSparse) })
\*     .collect::<Result<Vec<_>, _>>()
RECURSIVE collect_dense(_)
collect_dense(us) ==
    IF us = <<>> THEN Ok(<<>>)
    ELSE IF Head(us).tag = "Sparse" THEN WrongSparse
    ELSE LET rest == collect_dense(Tail(us))
         IN  IF is_ok(rest) THEN Ok(<<Head(us).vector>> \o rest.value) ELSE rest

\* TryFrom<RecoQuery<VectorOrSparse>> for RecoQuery<VectorType>
reco_try_from(query) ==
    LET positives == collect_dense(query.positives)
    IN  IF ~is_ok(positives) THEN positives
        ELSE LET negatives == collect_dense(query.negatives)
             IN  IF ~is_ok(negatives) THEN negatives
                 ELSE Ok(RecoQuery_new(positives.value, negatives.value))

\* QuantizedQueryScorer::new(query, quantized_storage, distance), as the
\* arguments it is built from
QuantizedQueryScorer_new(query, quantized_storage) ==
    [scorer |-> "QuantizedQueryScorer", query |-> query,
     quantized_storage |-> quantized_storage]

\* QuantizedRecoQueryScorer::new(query, quantized_storage, distance)
QuantizedRecoQueryScorer_new(query, quantized_storage) ==
    [scorer |-> "QuantizedRecoQueryScorer", query |-> query,
     quantized_storage |-> quantized_storage]

\* QuantizedScorerBuilder::new_quantized_scorer
new_quantized_scorer(query, quantized_storage) ==
    IF query.tag = "Nearest"
    THEN LET vector == try_into_vector(query.vector)
         IN  IF ~is_ok(vector) THEN vector
             ELSE Ok(QuantizedQueryScorer_new(vector.value, quantized_storage))
    ELSE LET reco_query == reco_try_from(query.query)
         IN  IF ~is_ok(reco_query) THEN reco_query
             ELSE Ok(QuantizedRecoQueryScorer_new(reco_query.value, quantized_storage))

\* QuantizedScorerBuilder::build
build(quantized_storage, query) ==
    CASE quantized_storage = "ScalarRam" -> new_quantized_scorer(query, "ScalarRam")
      [] quantized_storage = "ScalarMmap" -> new_quantized_scorer(query, "ScalarMmap")
      [] quantized_storage = "PQRam" -> new_quantized_scorer(query, "PQRam")
      [] quantized_storage = "PQMmap" -> new_quantized_scorer(query, "PQMmap")
      [] quantized_storage = "BinaryRam" -> new_quantized_scorer(query, "BinaryRam")
      [] quantized_storage = "BinaryMmap" -> new_quantized_scorer(query, "BinaryMmap")

Build ==
    ConvReturn("build", build(convCall.quantized_storage, convCall.query))

BuildCalls ==
    {[fn |-> "build", quantized_storage |-> s, query |-> q] :
        s \in QuantizedStorages, q \in QueryVectors(MaxRecoLen)}

\* longest positives or negatives list handed to transform
MaxTransformLen == 2

\* the values a transforming closure returns
Transformed == {"a", "b"}

\* into_iter().map(&mut f).collect()
RECURSIVE map_collect(_, _)
map_collect(f, xs) ==
    IF xs = <<>> THEN <<>> ELSE <<f[Head(xs)]>> \o map_collect(f, Tail(xs))

\* faulty variant: the two lists change places
transform_swapped(query, f) ==
    RecoQuery_new(map_collect(f, query.negatives), map_collect(f, query.positives))

\* RecoQuery::transform(f)
transform(query, f) ==
    RecoQuery_new(map_collect(f, query.positives), map_collect(f, query.negatives))

Transform ==
    ConvReturn("transform", transform(convCall.query, convCall.f))

TransformCalls ==
    {[fn |-> "transform", query |-> RecoQuery_new(p, n), f |-> f] :
        p \in SeqsUpTo(VecElems, MaxTransformLen),
        n \in SeqsUpTo(VecElems, MaxTransformLen),
        f \in [VecElems -> Transformed]}

RoundTripCalls ==
    {[fn |-> "round_trip_vector", arg |-> v] : v \in ConvDense}
        \cup {[fn |-> "round_trip_sparse", arg |-> sv] : sv \in ConvSparse}

-----------------------------------------------------------------------------
InitScore == ScoreInit /\ StoreIdle /\ CountsIdle /\ CheckIdle /\ StopIdle /\ ConvIdle

NextScore == ScoreBy

SpecScore == InitScore /\ [][NextScore]_vars

Init == StoreInit /\ ScoreIdle /\ CountsIdle /\ CheckIdle /\ StopIdle /\ ConvIdle

Spec == Init /\ [][Next]_vars

InitCounts == CountsInit /\ ScoreIdle /\ StoreIdle /\ CheckIdle /\ StopIdle /\ ConvIdle

NextCounts == AvailableVectorCount

SpecCounts == InitCounts /\ [][NextCounts]_vars

InitCheck == CheckInit /\ ScoreIdle /\ StoreIdle /\ CountsIdle /\ StopIdle /\ ConvIdle

NextCheck ==
    \/ CheckVectorName
    \/ CheckVector
    \/ CheckQueryVectors

SpecCheck == InitCheck /\ [][NextCheck]_vars

InitStop == StopInit /\ ScoreIdle /\ StoreIdle /\ CountsIdle /\ CheckIdle /\ ConvIdle

NextStop ==
    \/ SetStopped
    \/ CheckStopped
    \/ \E backend \in Backends, other_ids \in SeqsUpTo(SourceIds, MaxCopyLen) :
          UpdateFrom(backend, other_ids)
    \/ UpdateFromStep

SpecStop == InitStop /\ [][NextStop]_vars

ConvCalls == NarrowCalls \cup RoundTripCalls \cup BuildCalls \cup TransformCalls

ConvInit ==
    /\ convCall \in ConvCalls
    /\ convRet = OkUnit
    /\ convPc = "called"

InitConv == ConvInit /\ ScoreIdle /\ StoreIdle /\ CountsIdle /\ CheckIdle /\ StopIdle

NextConv ==
    \/ TryIntoSlice
    \/ TryIntoVector
    \/ TryIntoSparseRef
    \/ TryIntoSparse
    \/ RefTryIntoSlice
    \/ RefTryIntoSparse
    \/ RoundTripVector
    \/ RoundTripSparse
    \/ Build
    \/ Transform

SpecConv == InitConv /\ [][NextConv]_vars

-----------------------------------------------------------------------------
(* Properties of score_by                                                   *)

SimSet(list) == {similarity[list[i]] : i \in 1..Len(list)}

\* the greatest element of S in the total order, negative infinity for none
Maximum(S) ==
    IF S = {} THEN NEG_INFINITY
    ELSE CHOOSE x \in S : \A y \in S : TotalKey(y) <= TotalKey(x)

MaxPositive == Maximum(SimSet(reco.positives))

MaxNegative == Maximum(SimSet(reco.negatives))

NegatedSquare(x) == FNeg(Mul(x, x))

Scored == scorePc = "scored"

\* C1: score_by returns max_positive when max_positive > max_negative and
\* -(max_negative * max_negative) otherwise, the maxima being taken over the
\* similarities of the positives / negatives, negative infinity for an empty list.
C1_ScoreByFold ==
    Scored =>
        score = IF Gt(MaxPositive, MaxNegative)
                THEN MaxPositive
                ELSE NegatedSquare(MaxNegative)

C1_Witness ==
    /\ Scored
    /\ Len(reco.positives) = 2
    /\ similarity[reco.positives[1]] # similarity[reco.positives[2]]
    /\ reco.negatives # <<>>
    /\ MaxPositive = FromInt(5)
    /\ MaxNegative = FromInt(1)
    /\ score = FromInt(5)

\* C2: when max_positive equals max_negative and both are finite, the result is
\* -(max_negative^2), the negative branch; positives=[5], negatives=[5] gives -25.
C2_TieTakesNegativeBranch ==
    (Scored /\ MaxPositive.k = "fin" /\ MaxNegative.k = "fin"
            /\ FEq(MaxPositive, MaxNegative))
        => score = NegatedSquare(MaxNegative)

C2_Witness ==
    /\ Scored
    /\ MaxPositive = FromInt(5)
    /\ MaxNegative = FromInt(5)
    /\ score = FromInt(-25)

\* C3 as stated: with empty negatives and nonempty positives score_by returns
\* exactly the maximum similarity over the positives.
C3_PositiveOnly_Original ==
    (Scored /\ reco.negatives = <<>> /\ reco.positives # <<>>)
        => score = MaxPositive

\* C3 as amended: with empty negatives and nonempty positives score_by returns
\* exactly the maximum similarity over the positives, provided that maximum is
\* not NaN (a NaN maximum loses the `>` comparison and yields negative infinity).
C3_PositiveOnly ==
    (Scored /\ reco.negatives = <<>> /\ reco.positives # <<>> /\ ~is_nan(MaxPositive))
        => score = MaxPositive

C3_Witness ==
    /\ Scored
    /\ reco.negatives = <<>>
    /\ Len(reco.positives) = 2
    /\ similarity[reco.positives[1]] = FromInt(5)
    /\ similarity[reco.positives[2]] = FromInt(-1)
    /\ score = FromInt(5)

\* C4: with empty positives and nonempty negatives score_by returns
\* -(max_negative^2), max_negative being the maximum similarity over the negatives.
C4_NegativeOnly ==
    (Scored /\ reco.positives = <<>> /\ reco.negatives # <<>>)
        => score = NegatedSquare(MaxNegative)

C4_Witness ==
    /\ Scored
    /\ reco.positives = <<>>
    /\ Len(reco.negatives) = 2
    /\ similarity[reco.negatives[1]] = FromInt(-1)
    /\ similarity[reco.negatives[2]] = FromInt(5)
    /\ score = FromInt(-25)

\* C5: with both lists empty score_by returns negative infinity, whatever the
\* similarity function.
C5_NoInput ==
    (Scored /\ reco.positives = <<>> /\ reco.negatives = <<>>)
        => score = NEG_INFINITY

C5_Witness ==
    /\ Scored
    /\ reco.positives = <<>>
    /\ reco.negatives = <<>>
    /\ \E e \in Elem : similarity[e] = FromInt(5)
    /\ score = NEG_INFINITY

NegativeBranch == ~Gt(MaxPositive, MaxNegative)

\* C6 as stated: in the negative branch the score is <= 0 and is 0 only when
\* max_negative is 0.
C6_NegativeBranchSign_Original ==
    (Scored /\ NegativeBranch)
        => /\ Le(score, FromInt(0))
           /\ (FEq(score, FromInt(0)) => FEq(MaxNegative, FromInt(0)))

\* C6 as amended: in the negative branch, when max_negative is not NaN, the score
\* is <= 0; it is 0 when max_negative is 0, and otherwise only when max_negative
\* is so small that its square rounds to zero (underflow).
C6_NegativeBranchSign ==
    (Scored /\ NegativeBranch /\ ~is_nan(MaxNegative))
        => /\ Le(score, FromInt(0))
           /\ (FEq(MaxNegative, FromInt(0)) => FEq(score, FromInt(0)))
           /\ (FEq(score, FromInt(0))
                  => MaxNegative.k = "fin" /\ 2 * MaxNegative.m * MaxNegative.m <= Scale)

C6_Witness ==
    /\ Scored
    /\ NegativeBranch
    /\ reco.positives # <<>>
    /\ MaxPositive = FromInt(1)
    /\ MaxNegative = FromInt(5)
    /\ score = FromInt(-25)

\* the underflow case of C6: a non-zero max_negative with a zero score
C6_UnderflowReached ==
    /\ Scored
    /\ NegativeBranch
    /\ MaxNegative = Fin(FALSE, 1)
    /\ FEq(score, FromInt(0))

-----------------------------------------------------------------------------
(* Properties of the storage                                                *)

\* the deletion flag of offset `key`, false where the bitmap has no bit
Flagged(key) == InBitmap(key) /\ deleted_vectors[key + 1]

\* what the claim asks of one delete_vector(key) step
DeleteStepOk(key) ==
    IF Flagged(key)
    THEN /\ storeRet'.result = Ok(FALSE)
         /\ deleted_vector_count' = deleted_vector_count
    ELSE /\ storeRet'.result = Ok(TRUE)
         /\ deleted_vector_count' = deleted_vector_count + 1

\* C7: from any reachable storage state, delete_vector(k) on a not-deleted offset k
\* returns true and raises deleted_vector_count by exactly one; delete_vector(k) on
\* an offset already deleted returns false and leaves deleted_vector_count unchanged.
C7_DeleteIdempotent ==
    [][\A key \in Keys : DeleteVector(key) => DeleteStepOk(key)]_vars

\* the same, for the offsets the deletion bitmap covers
C7_DeleteIdempotent_InBitmap ==
    [][\A key \in Keys : (DeleteVector(key) /\ InBitmap(key)) => DeleteStepOk(key)]_vars

\* a vector was inserted past the bitmap and deleting it panicked
C7_PanicReached ==
    /\ storePc = "panicked"
    /\ storeRet.op = "delete_vector"
    /\ storeRet.key < total_vector_count

\* C17: insert_vector on the fixture storage with a Sparse union fails with
\* WrongSparse and leaves the stored vectors, total_vector_count and both
\* deletion bitmaps as they were.
C17_SparseInsertRefused ==
    [][\A key \in Keys, sv \in SparseInputs :
          InsertVector(key, RefSparse(sv))
              => /\ storeRet'.result = WrongSparse
                 /\ vectors' = vectors
                 /\ total_vector_count' = total_vector_count
                 /\ deleted_vectors' = deleted_vectors
                 /\ deleted_points' = deleted_points]_vars

\* a nonempty sparse vector was offered at an offset past the end, where an
\* insert would have grown the storage, and was refused
C17_Witness ==
    /\ storePc = "ready"
    /\ storeRet.op = "insert_vector"
    /\ storeRet.vector.tag = "Sparse"
    /\ storeRet.vector.sparse.indices # <<>>
    /\ storeRet.key >= total_vector_count
    /\ storeRet.result = WrongSparse

\* a bitmap call on an offset the storage holds but the bitmap does not cover
PastBitmapCall ==
    /\ storeRet.op \in {"is_deleted_vector", "delete_vector"}
    /\ storeRet.key < total_vector_count
    /\ ~InBitmap(storeRet.key)

\* C18: is_deleted_vector(k) and delete_vector(k) on an offset k below
\* total_vector_count but at or past the length of the deletion bitmap
\* complete without a fatal failure.
C18_PastBitmapDefensive ==
    PastBitmapCall => (storeRet.result # Panic /\ storePc # "panicked")

\* the bitmap is shorter than the storage after an insert past the end
C18_ShortBitmapReached ==
    /\ storePc = "ready"
    /\ Len(deleted_vectors) < total_vector_count

\* reading the flag of such an offset panicked
C18_ReadPanicReached ==
    /\ PastBitmapCall
    /\ storeRet.op = "is_deleted_vector"
    /\ storeRet.result = Panic

\* C19: delete_vector(k) changes nothing but the deletion flag of offset k:
\* total_vector_count() is unchanged, get_vector(j) returns the same vector
\* for every offset j, k included, and the deletion flag of every other
\* offset is unchanged.
C19_DeleteIsTombstone ==
    [][\A key \in Keys :
          DeleteVector(key)
              => /\ total_vector_count' = total_vector_count
                 /\ \A j \in Keys :
                       j < total_vector_count => get_vector(j)' = get_vector(j)
                 /\ Len(deleted_vectors') = Len(deleted_vectors)
                 /\ \A j \in Keys \ {key} : Flagged(j)' = Flagged(j)
                 /\ deleted_points' = deleted_points]_vars

\* a delete succeeded in a storage of two vectors or more and another offset
\* is still not deleted
C19_Witness ==
    /\ storeRet.op = "delete_vector"
    /\ storeRet.result = Ok(TRUE)
    /\ total_vector_count >= 2
    /\ Flagged(storeRet.key)
    /\ \E j \in Keys \ {storeRet.key} : InBitmap(j) /\ ~Flagged(j)

\* a step in which delete_vector returned true
DeleteReturnedTrue == \E key \in Keys : DeleteVector(key) /\ storeRet'.result = Ok(TRUE)

\* C20: a tombstone of the fixture storage is permanent.  No bit is set when
\* the storage is created; a flag that is set stays set through every later
\* insert_vector and delete_vector, re-insertion at the same offset included,
\* and is_deleted_vector reads it as true; deleted_vector_count goes up by one
\* in exactly the steps where delete_vector returns true and never otherwise,
\* so it never decreases and counts the offsets delete_vector returned true for.
C20_TombstonePermanent ==
    /\ deleted_vector_count = 0
    /\ [][/\ \A key \in Keys : Flagged(key) => Flagged(key)'
          /\ \A key \in Keys :
                (IsDeletedVector(key) /\ Flagged(key)) => storeRet'.result = TRUE
          /\ deleted_vector_count' =
                deleted_vector_count + (IF DeleteReturnedTrue THEN 1 ELSE 0)]_vars

\* a vector was inserted again at a deleted offset and the flag is still set
C20_Witness ==
    /\ storeRet.op = "insert_vector"
    /\ storeRet.result = OkUnit
    /\ storeRet.key < Len(deleted_vectors)
    /\ Flagged(storeRet.key)
    /\ deleted_vector_count = 2

\* C8: available_vector_count() is total_vector_count() - deleted_vector_count()
\* when deleted <= total, and 0 when deleted exceeds total.
C8_AvailableSaturates ==
    countsPc = "returned" =>
        IF implDeleted <= implTotal
        THEN available = implTotal - implDeleted
        ELSE available = 0

C8_Witness ==
    /\ countsPc = "returned"
    /\ implTotal = 2
    /\ implDeleted = 3
    /\ available = 0

\* C8 on the fixture storage, where the bitmap never outgrows the vectors
C8_FixtureAvailable ==
    storePc # "idle" =>
        /\ deleted_vector_count <= total_vector_count
        /\ available_vector_count(total_vector_count, deleted_vector_count)
               = total_vector_count - deleted_vector_count

-----------------------------------------------------------------------------
(* Properties of the compatibility checks                                   *)

Returned == checkPc = "returned"

KnownName == checkCall.vector_name \in DOMAIN segment_config.vector_data

ConfiguredSize == segment_config.vector_data[checkCall.vector_name].size

\* len() of a vector union: element count if dense, index count if sparse
UnionLen(u) == IF u.tag = "Vector" THEN Len(u.vector) ELSE Len(u.sparse.indices)

\* C9: check_vector on a Nearest query against an existing field returns Ok exactly
\* when the vector's len() equals the configured size, and otherwise
\* WrongVector{expected_dim = configured size, received_dim = len()}, for every
\* mismatched length, 0 and oversized included.
C9_NearestDimension ==
    (Returned /\ checkCall.fn = "check_vector" /\ KnownName
              /\ checkCall.query_vector.tag = "Nearest")
        => LET len == UnionLen(checkCall.query_vector.vector)
           IN  IF len = ConfiguredSize
               THEN checkRet = OkUnit
               ELSE checkRet = WrongVector(ConfiguredSize, len)

C9_Witness ==
    /\ Returned
    /\ checkCall.fn = "check_vector"
    /\ KnownName
    /\ checkCall.query_vector.tag = "Nearest"
    /\ checkCall.query_vector.vector.tag = "Vector"
    /\ Len(checkCall.query_vector.vector.vector) = ConfiguredSize + 1
    /\ checkRet = WrongVector(ConfiguredSize, ConfiguredSize + 1)

\* the zero-length case of C9
C9_ZeroLengthReached ==
    /\ Returned
    /\ checkCall.fn = "check_vector"
    /\ KnownName
    /\ checkCall.query_vector = Nearest(OwnedVector(<<>>))
    /\ checkRet = WrongVector(ConfiguredSize, 0)

\* C10: check_vector_name, check_vector and check_query_vectors return
\* VectorNameNotExists{received_name = the given name} whenever the name is not a
\* key of vector_data, whatever the lengths of the vectors handed in.
C10_UnknownNameFirst ==
    (Returned /\ ~KnownName) => checkRet = VectorNameNotExists(checkCall.vector_name)

C10_Witness ==
    /\ Returned
    /\ ~KnownName
    /\ DOMAIN segment_config.vector_data # {}
    /\ checkCall.fn = "check_query_vectors"
    /\ Len(checkCall.query_vectors) = 2
    /\ \A name \in DOMAIN segment_config.vector_data :
          \A i \in 1..2 :
             /\ checkCall.query_vectors[i].tag = "Nearest"
             /\ UnionLen(checkCall.query_vectors[i].vector)
                    # segment_config.vector_data[name].size
    /\ checkRet = VectorNameNotExists(checkCall.vector_name)

\* C10 for check_vector: an unknown name with a wrong-length vector
C10_CheckVectorReached ==
    /\ Returned
    /\ ~KnownName
    /\ checkCall.fn = "check_vector"
    /\ checkCall.query_vector = Nearest(OwnedVector(<<>>))
    /\ checkRet = VectorNameNotExists(checkCall.vector_name)


\* the elements of a Recommend query, positives then negatives
RecoElements == checkCall.query_vector.query.positives
                    \o checkCall.query_vector.query.negatives

\* the positions of the elements whose len() is not the configured size
Mismatching == {i \in 1..Len(RecoElements) : UnionLen(RecoElements[i]) # ConfiguredSize}

FirstMismatching == CHOOSE i \in Mismatching : \A j \in Mismatching : i <= j

\* C11: check_vector on a Recommend query against an existing field succeeds iff
\* every positive and every negative has the configured length; otherwise it
\* returns WrongVector with the received_dim of the first mismatching element,
\* positives before negatives.
C11_RecommendFirstMismatch ==
    (Returned /\ checkCall.fn = "check_vector" /\ KnownName
              /\ checkCall.query_vector.tag = "Recommend")
        => IF Mismatching = {}
           THEN checkRet = OkUnit
           ELSE checkRet = WrongVector(ConfiguredSize, UnionLen(RecoElements[FirstMismatching]))

C11_Witness ==
    /\ Returned
    /\ checkCall.fn = "check_vector"
    /\ KnownName
    /\ checkCall.query_vector.tag = "Recommend"
    /\ Len(checkCall.query_vector.query.positives) = 1
    /\ Len(checkCall.query_vector.query.negatives) = 1
    /\ Mismatching = {1, 2}
    /\ UnionLen(RecoElements[1]) # UnionLen(RecoElements[2])
    /\ checkRet = WrongVector(ConfiguredSize, UnionLen(RecoElements[1]))

\* C11, the passing case: two elements of the configured length
C11_AllMatchReached ==
    /\ Returned
    /\ checkCall.fn = "check_vector"
    /\ KnownName
    /\ checkCall.query_vector.tag = "Recommend"
    /\ Len(RecoElements) = 2
    /\ Mismatching = {}
    /\ checkRet = OkUnit

-----------------------------------------------------------------------------
(* Properties of cancellation                                               *)

\* an update_from call that was entered with the flag set, on a nonempty id
\* sequence, and is over
PresetStopCall ==
    /\ stopPc \in {"ready", "panicked"}
    /\ stopRet.op = "update_from"
    /\ stopRet.stopped
    /\ stopRet.other_ids # <<>>

\* C12: update_from entered with the stop flag already set, on a nonempty id
\* sequence, fails with Cancelled; and check_stopped returns Cancelled iff the
\* flag is set.
C12_PresetStopCancels ==
    /\ PresetStopCall => stopRet.result = Cancelled
    /\ (stopRet.op = "check_stopped")
           => (stopRet.result = Cancelled <=> stopRet.stopped)

\* C12, the half that holds: check_stopped returns Cancelled iff the flag is
\* set, Ok(()) otherwise, and no call stores to the flag
C12_CheckStoppedOnly ==
    (stopRet.op = "check_stopped")
        => /\ stopRet.result = (IF stopRet.stopped THEN Cancelled ELSE OkUnit)
           /\ stopRet.stopped => is_stopped

\* C12: no step of check_stopped or update_from changes the flag
C12_FlagUntouched ==
    [][(stopRet' # stopRet \/ copy' # copy \/ stopPc' # stopPc)
          => is_stopped' = is_stopped]_vars

\* C12: on the storages that implement the copy, a preset flag cancels it
\* before any entry is copied
C12_DenseCancelsReached ==
    /\ PresetStopCall
    /\ stopRet.backend \in DenseBackends
    /\ stopRet.result = Cancelled
    /\ copy.copied = 0

\* C12: on the fixture the call unwinds instead
C12_FixturePanicReached ==
    /\ PresetStopCall
    /\ stopRet.backend = "TestRawScorerProducer"
    /\ stopRet.result = Panic

-----------------------------------------------------------------------------
(* Properties of the conversions                                            *)

ConvReturned == convPc = "returned"

ToDense == {"try_into_slice", "try_into_vector", "ref_try_into_slice"}

ToSparse == {"try_into_sparse_ref", "try_into_sparse", "ref_try_into_sparse"}

\* C13: narrowing a union (owned, borrowed or VectorOrSparseRef) to a dense
\* vector or slice fails with WrongSparse iff the union is Sparse, narrowing
\* to a sparse vector fails with WrongSparse iff the union is Vector, and a
\* matching tag yields Ok of exactly the value the union holds.
C13_NarrowingByTag ==
    /\ (ConvReturned /\ convCall.fn \in ToDense)
          => /\ convRet = WrongSparse <=> convCall.arg.tag = "Sparse"
             /\ convCall.arg.tag = "Vector" => convRet = Ok(convCall.arg.vector)
    /\ (ConvReturned /\ convCall.fn \in ToSparse)
          => /\ convRet = WrongSparse <=> convCall.arg.tag = "Vector"
             /\ convCall.arg.tag = "Sparse" => convRet = Ok(convCall.arg.sparse)

C13_Witness ==
    /\ ConvReturned
    /\ convCall.fn = "try_into_vector"
    /\ convCall.arg.tag = "Sparse"
    /\ convCall.arg.sparse.indices # <<>>
    /\ convRet = WrongSparse

\* C13, the other direction: a dense reference is refused as sparse
C13_DenseAsSparseReached ==
    /\ ConvReturned
    /\ convCall.fn = "ref_try_into_sparse"
    /\ convCall.arg.tag = "Vector"
    /\ convRet = WrongSparse

\* C13, a matching tag: the slice of a borrowed dense union
C13_MatchingReached ==
    /\ ConvReturned
    /\ convCall.fn = "try_into_slice"
    /\ convCall.arg.tag = "Vector"
    /\ Len(convCall.arg.vector) = 2
    /\ convRet = Ok(convCall.arg.vector)

\* C14: a dense vector converted into VectorOrSparse and narrowed back to an
\* owned dense vector comes back as Ok of an equal sequence; a SparseVector
\* converted and narrowed back comes back as Ok with the same indices and the
\* same weights, in the same order.
C14_RoundTrip ==
    /\ (ConvReturned /\ convCall.fn = "round_trip_vector")
          => /\ convRet.tag = "Ok"
             /\ Len(convRet.value) = Len(convCall.arg)
             /\ \A i \in 1..Len(convCall.arg) : convRet.value[i] = convCall.arg[i]
    /\ (ConvReturned /\ convCall.fn = "round_trip_sparse")
          => /\ convRet.tag = "Ok"
             /\ convRet.value.indices = convCall.arg.indices
             /\ convRet.value.weights = convCall.arg.weights

C14_Witness ==
    /\ ConvReturned
    /\ convCall.fn = "round_trip_vector"
    /\ Len(convCall.arg) = 2
    /\ convCall.arg[1] # convCall.arg[2]
    /\ convRet = Ok(convCall.arg)

\* C14, the sparse round trip, on a vector whose indices and weights differ
C14_SparseReached ==
    /\ ConvReturned
    /\ convCall.fn = "round_trip_sparse"
    /\ Len(convCall.arg.indices) = 2
    /\ convCall.arg.indices # convCall.arg.weights
    /\ convRet = Ok(convCall.arg)

\* the query handed to build contains a sparse vector
HasSparse(query) ==
    IF query.tag = "Nearest"
    THEN query.vector.tag = "Sparse"
    ELSE \/ \E i \in 1..Len(query.query.positives) : query.query.positives[i].tag = "Sparse"
         \/ \E i \in 1..Len(query.query.negatives) : query.query.negatives[i].tag = "Sparse"

\* the dense vectors of a list of unions, in the order of the list
DenseOf(us) == [i \in 1..Len(us) |-> us[i].vector]

\* C15: for each of the six quantized storages, build fails with WrongSparse
\* iff the query holds a sparse vector (the vector of a Nearest query, or any
\* positive or negative of a Recommend query); otherwise it returns the
\* scorer of that storage over the dense vectors in their original order.
C15_BuildRejectsSparse ==
    (ConvReturned /\ convCall.fn = "build")
        => /\ convRet = WrongSparse <=> HasSparse(convCall.query)
           /\ ~HasSparse(convCall.query)
                 => /\ convRet.tag = "Ok"
                    /\ convRet.value.quantized_storage = convCall.quantized_storage
                    /\ IF convCall.query.tag = "Nearest"
                       THEN convRet.value.query = convCall.query.vector.vector
                       ELSE /\ convRet.value.query.positives
                                  = DenseOf(convCall.query.query.positives)
                            /\ convRet.value.query.negatives
                                  = DenseOf(convCall.query.query.negatives)

C15_Witness ==
    /\ ConvReturned
    /\ convCall.fn = "build"
    /\ convCall.query.tag = "Recommend"
    /\ Len(convCall.query.query.positives) = 1
    /\ convCall.query.query.positives[1].tag = "Vector"
    /\ Len(convCall.query.query.negatives) = 1
    /\ convCall.query.query.negatives[1].tag = "Sparse"
    /\ convRet = WrongSparse

\* C15, the passing case: two different dense positives keep their order
C15_DenseRecoReached ==
    /\ ConvReturned
    /\ convCall.fn = "build"
    /\ convCall.quantized_storage = "BinaryMmap"
    /\ convCall.query.tag = "Recommend"
    /\ Len(convCall.query.query.positives) = 2
    /\ ~HasSparse(convCall.query)
    /\ convCall.query.query.positives[1] # convCall.query.query.positives[2]
    /\ convRet.tag = "Ok"
    /\ convRet.value.query.positives[1] = convCall.query.query.positives[1].vector

\* C15: a sparse Nearest query is refused
C15_SparseNearestReached ==
    /\ ConvReturned
    /\ convCall.fn = "build"
    /\ convCall.query.tag = "Nearest"
    /\ convCall.query.vector.tag = "Sparse"
    /\ convRet = WrongSparse

\* C16: transform(f) returns a query whose positives have the length of the
\* input positives, the i-th being f of the i-th input positive, and likewise
\* for the negatives: nothing moves between the lists and order is kept.
C16_TransformElementwise ==
    (ConvReturned /\ convCall.fn = "transform")
        => /\ Len(convRet.positives) = Len(convCall.query.positives)
           /\ \A i \in 1..Len(convCall.query.positives) :
                 convRet.positives[i] = convCall.f[convCall.query.positives[i]]
           /\ Len(convRet.negatives) = Len(convCall.query.negatives)
           /\ \A i \in 1..Len(convCall.query.negatives) :
                 convRet.negatives[i] = convCall.f[convCall.query.negatives[i]]

C16_Witness ==
    /\ ConvReturned
    /\ convCall.fn = "transform"
    /\ Len(convCall.query.positives) = 2
    /\ convCall.query.positives[1] # convCall.query.positives[2]
    /\ Len(convCall.query.negatives) = 1
    /\ convCall.f[0] # convCall.f[1]
    /\ convRet.positives = <<convCall.f[convCall.query.positives[1]],
                             convCall.f[convCall.query.positives[2]]>>
    /\ convRet.negatives = <<convCall.f[convCall.query.negatives[1]]>>

====
